---- MODULE Spec2Model ----
(***************************************************************************)
(* beamcon_3D.py: smooth the channels of one or more image cubes to a      *)
(* common beam.  The model follows main(): the file loop, the validity     *)
(* masking of the beam tables, the choice of the target beam, and, per     *)
(* cube, the chunked convolution through the shared buffers arr_in and     *)
(* arr_out with incremental write-back.                                    *)
(*                                                                         *)
(* Arrays are functions over 0..n-1, as in the source.  Beam axes are      *)
(* integers counted in 1/ArcsecDenom of an arcsecond.  An image is a       *)
(* symbolic value: raw channel k of cube c, the result of smooth() on an   *)
(* image with a kernel and a factor, or the all-NaN image.                 *)
(***************************************************************************)
EXTENDS Integers, Sequences, FiniteSets, TLC

\* ---------------------------------------------------------------- bounds
MaxCubes == 2        \* files matched by the glob
MaxCores == 3        \* --ncores, or the size of the MPI communicator
MaxChan == 4         \* channels of a cube
ArcsecDenom == 2     \* beam axes are counted in 1/ArcsecDenom arcsec
MaxCpu == 6          \* max_cpu tried on cpu_to_use alone
MaxCount == 12       \* count tried on cpu_to_use alone

\* ---------------------------------------------------------------- values
MinChan == 2          \* getbeams needs a beam log of two rows for beams.shape[0]
None == -1           \* an omitted command-line option
NaN == -2            \* numpy.nan in a beam table

Arr(n) == 0 .. (n - 1)

Beam(major, minor, pa) == [major |-> major, minor |-> minor, pa |-> pa]
NaNBeam == Beam(NaN, NaN, NaN)
IsNaNBeam(b) == b.major = NaN \/ b.minor = NaN

\* The native beams of the inputs: a round beam of a little over 3 arcsec,
\* and an elongated one of a little over 5 arcsec (smaller in area, larger
\* in major axis).  No axis is a whole number of arcsec.
RoundBeam == Beam(3 * ArcsecDenom + 1, 3 * ArcsecDenom + 1, 0)
LongBeam == Beam(5 * ArcsecDenom + 1, 1, 0)
\* Beams that differ from channel to channel, at alternating angles.
GradedBeam(k) ==
    Beam((k + 2) * ArcsecDenom + 1, ArcsecDenom - 1, IF k % 2 = 0 THEN 0 ELSE 90)

\* A factor is the pair gauss_factor was given; NaNFac is the NaN factor.
NaNFac == [conbm |-> NaNBeam, beamOrig |-> NaNBeam]
NaNImage == [kind |-> "nan", cube |-> 0, chan |-> 0, kern |-> NaNBeam, fac |-> NaNFac]
RawImage(c, k) == [kind |-> "raw", cube |-> c, chan |-> k, kern |-> NaNBeam, fac |-> NaNFac]

Max(S) == CHOOSE x \in S : \A y \in S : y <= x

\* ------------------------------------------------------------ cpu_to_use
\* factors = [i for i in range(1, count + 1) if count % i == 0]
Factors(count) == {f \in 1 .. count : count % f = 0}

\* cpu_to_use selecting factors < max_cpu.
cpu_to_use_strict(max_cpu, count) ==
    LET sel == {f \in Factors(count) : f < max_cpu}
    IN  IF sel = {} THEN 0 ELSE Max(sel)

\* max(factors[factors <= max_cpu]); max() of an empty selection raises,
\* which is 0 here (it does not happen for max_cpu >= 1).
cpu_to_use(max_cpu, count) ==
    LET sel == {f \in Factors(count) : f <= max_cpu}
    IN  IF sel = {} THEN 0 ELSE Max(sel)

\* round_up(n, decimals=0): np.ceil(n * 1) / 1, of a length in arcsec.
round_up(n) == ((n + ArcsecDenom - 1) \div ArcsecDenom) * ArcsecDenom

\* NaN beams taken for finite ones.
IsFinite_all(b) == TRUE
\* ------------------------------------------------- radio_beam, au2, smooth
\* Beams.isfinite: both axes positive and finite.
IsFinite(b) == ~IsNaNBeam(b) /\ b.major > 0 /\ b.minor > 0

\* beams[...].ravel(): the beam tables of all cubes as one list.
Ravel(tabs) ==
    LET RECURSIVE Cat(_)
        Cat(c) == IF c < 0 THEN <<>>
                  ELSE Cat(c - 1) \o [j \in 1 .. Cardinality(DOMAIN tabs[c]) |-> tabs[c][j - 1]]
    IN  Cat(Cardinality(DOMAIN tabs) - 1)

\* Beams.largest_beam(): the finite beam of the largest area major*minor
\* (argmax: the first one of that area).  Called only when one is finite.
largest_beam(beamlst) ==
    LET fin == SelectSeq(beamlst, IsFinite)
        area(j) == fin[j].major * fin[j].minor
        top == Max({area(j) : j \in 1 .. Len(fin)})
        idx == CHOOSE j \in 1 .. Len(fin) :
                   area(j) = top /\ \A m \in 1 .. (j - 1) : area(m) < top
    IN  fin[idx]

\* The extent of a beam along the direction of position angle 0 and across
\* it; every beam of the model is at position angle 0 or 90.
ExtAlong(b) == IF b.pa = 0 THEN b.major ELSE b.minor
ExtAcross(b) == IF b.pa = 0 THEN b.minor ELSE b.major

\* Beam.deconvolve(other) succeeds when the difference of the two Gaussians'
\* covariances is positive in both directions; a NaN beam passes the test
\* (comparisons with NaN are false) and gives a NaN beam.  The inputs keep
\* away from the marginal case of equal extents.
Deconvolvable(new_beam, oldbeam) ==
    \/ IsNaNBeam(oldbeam)
    \/ /\ ExtAlong(new_beam) > ExtAlong(oldbeam)
       /\ ExtAcross(new_beam) > ExtAcross(oldbeam)

\* The deconvolved beam; its axes are kept squared.
deconvolve(new_beam, oldbeam) ==
    IF IsNaNBeam(oldbeam) THEN NaNBeam
    ELSE LET a2 == ExtAlong(new_beam) * ExtAlong(new_beam)
                     - ExtAlong(oldbeam) * ExtAlong(oldbeam)
             c2 == ExtAcross(new_beam) * ExtAcross(new_beam)
                     - ExtAcross(oldbeam) * ExtAcross(oldbeam)
         IN  IF a2 >= c2 THEN Beam(a2, c2, 0) ELSE Beam(c2, a2, 90)

\* au2.gauss_factor(conbm, beamOrig, dx1, dy1)[0]: the amplitude factor of a
\* kernel and the beam it is applied to; NaN for a NaN kernel.
gauss_factor(conbm, beamOrig) ==
    IF IsNaNBeam(conbm) \/ IsNaNBeam(beamOrig) THEN NaNFac
    ELSE [conbm |-> conbm, beamOrig |-> beamOrig]

\* getfacs(datadict, new_beam): the kernels and factors of all channels of
\* one cube.  deconvolve raises when it fails, and getfacs does not catch it.
getfacs_raises(oldbeams, new_beam) ==
    \E k \in DOMAIN oldbeams : ~Deconvolvable(new_beam, oldbeams[k])
getfacs_conbms(oldbeams, new_beam) ==
    [k \in DOMAIN oldbeams |-> deconvolve(new_beam, oldbeams[k])]
getfacs_facs(oldbeams, new_beam) ==
    [k \in DOMAIN oldbeams |->
        gauss_factor(deconvolve(new_beam, oldbeams[k]), oldbeams[k])]

\* smooth(image, dy, conbeam, sfactor)
smooth(image, conbeam, sfactor) ==
    IF IsNaNBeam(conbeam) THEN NaNImage
    ELSE IF image.kind = "nan" \/ sfactor = NaNFac THEN NaNImage
    ELSE [kind |-> "sm", cube |-> image.cube, chan |-> image.chan,
          kern |-> conbeam, fac |-> sfactor]

\* ----------------------------------------------------------------- state
VARIABLES
    args,       \* the parsed command line: bmaj, bmin, bpa, n_cores, mpi
    comm_size,  \* MPI.COMM_WORLD.Get_size() when run with --mpi
    files,      \* the cubes matched by the glob: beam log and centre-pixel mask
    fault,      \* the channel whose convolution raises in smooth(), None when none
    pc,         \* where main() is
    err,        \* the exception that ended the run, "" when none
    n_cores,    \* workers per chunk
    beams,      \* beams[c][k]: the beam table of cube c, masked in place
    nchans,     \* nchans[c]: rows of the beam log of cube c
    masks,      \* masks[c][k]: channel k of cube c is blanked at the centre
    totalmask,  \* sum(masks) > 0
    new_beam,   \* the target beam
    key,        \* the cube being worked on
    cubedict,   \* conbeams and sfactors of that cube
    width,      \* channels per chunk
    n_chunks,   \* chunks of that cube
    i,          \* the chunk being worked on
    arr_in,     \* shared input buffer, one slot per channel of the chunk
    arr_out,    \* shared output buffer
    tasks,      \* the tasks pool.map was given for this chunk
    outfile,    \* outfile[c]: the channels of the output file of cube c
    created,    \* created[c]: copyfile has made the output file of cube c
    header,     \* header[c]: times the target beam was attached to output c
    srcfile,    \* srcfile[c]: what the input file of cube c holds
    chunks,     \* log: the <<start, stop>> loaded for this cube, in order
    flushed,    \* log: the start of every chunk written and flushed
    rd,         \* log: rd[slot], the tasks of this chunk that read arr_in[slot]
    wr,         \* log: wr[slot], the tasks of this chunk that wrote arr_out[slot]
    cpu         \* cpu_to_use on its own: its arguments and its result

vars == <<args, comm_size, files, fault, pc, err, n_cores, beams, nchans, masks,
          totalmask, new_beam, key, cubedict, width, n_chunks, i, arr_in,
          arr_out, tasks, outfile, created, header, srcfile, chunks, flushed,
          rd, wr, cpu>>

inputs == <<args, comm_size, files, fault>>
plan == <<n_cores, beams, nchans, masks, totalmask, new_beam>>
exec == <<key, cubedict, width, n_chunks, i, arr_in, arr_out, tasks, chunks,
          flushed, rd, wr>>
store == <<outfile, created, header, srcfile>>

NCubes == Cardinality(DOMAIN files)
NoCpu == [max_cpu |-> 0, count |-> 0, ret |-> 0, called |-> FALSE]
Idle ==
    /\ pc = "start" /\ err = "" /\ n_cores = 0
    /\ beams = <<>> /\ nchans = <<>> /\ masks = <<>> /\ totalmask = <<>>
    /\ new_beam = NaNBeam
    /\ key = 0 /\ cubedict = [conbeams |-> <<>>, sfactors |-> <<>>]
    /\ width = 0 /\ n_chunks = 0 /\ i = 0
    /\ arr_in = <<>> /\ arr_out = <<>> /\ tasks = <<>>
    /\ outfile = [c \in DOMAIN files |-> <<>>]
    /\ created = [c \in DOMAIN files |-> FALSE]
    /\ header = [c \in DOMAIN files |-> 0]
    /\ srcfile = [c \in DOMAIN files |-> "data"]
    /\ chunks = <<>> /\ flushed = <<>> /\ rd = <<>> /\ wr = <<>>

Raise(e) == pc' = "error" /\ err' = e

\* ------------------------------------------------ main(): lines 205 - 252
\* getbeams(beamlog): the table and its number of rows.
getbeams_nchan(file) == Cardinality(DOMAIN file.beamlog)

ReadFiles ==
    /\ pc = "start"
    /\ IF NCubes = 0
       THEN /\ Raise("No files found!")
            /\ UNCHANGED plan
       ELSE /\ pc' = "mask" /\ err' = err
            /\ n_cores' = IF args.mpi THEN comm_size ELSE n_cores
            /\ beams' = [c \in DOMAIN files |-> files[c].beamlog]
            /\ nchans' = [c \in DOMAIN files |-> getbeams_nchan(files[c])]
            /\ masks' = [c \in DOMAIN files |-> files[c].mask]
            /\ UNCHANGED <<totalmask, new_beam>>
    /\ UNCHANGED <<inputs, exec, store, cpu>>

\* ------------------------------------------------ main(): lines 253 - 264
\* The test of line 263 left out.
EqualChannelCount_always(ns) == TRUE

\* all(elem == nchans[0] for elem in nchans)
EqualChannelCount(ns) == \A c \in DOMAIN ns : ns[c] = ns[0]

\* The masks added modulo 2.
SumMasks_parity(ms, k) ==
    Cardinality({c \in DOMAIN ms : k \in DOMAIN ms[c] /\ ms[c][k]}) % 2
\* The mask of the first cube alone.
SumMasks_first(ms, k) == IF k \in DOMAIN ms[0] /\ ms[0][k] THEN 1 ELSE 0

\* sum(masks) > 0: channel k is blanked in at least one cube.
SumMasks(ms, k) == Cardinality({c \in DOMAIN ms : k \in DOMAIN ms[c] /\ ms[c][k]})

\* totalmask = sum(masks) > 0, over the n channels of the cubes.
TotalMask(ms, n) == [k \in Arr(n) |-> SumMasks(ms, k) > 0]

\* Tables of unequal length do not stack into one array and masks of unequal
\* length do not add: numpy raises in lines 254 - 257, before the test of
\* line 263 would.
MaskBeams ==
    /\ pc = "mask"
    /\ IF ~EqualChannelCount(nchans)
       THEN /\ Raise("Unequal channel count in beamlogs!")
            /\ UNCHANGED <<beams, totalmask>>
       ELSE LET tm == TotalMask(masks, nchans[0])
            IN  /\ totalmask' = tm
                /\ beams' = [c \in DOMAIN beams |->
                                [k \in DOMAIN beams[c] |->
                                    IF k \in DOMAIN tm /\ tm[k] THEN NaNBeam
                                    ELSE beams[c][k]]]
                /\ pc' = "beam" /\ err' = err
    /\ UNCHANGED <<inputs, n_cores, nchans, masks, new_beam, exec, store, cpu>>

\* ------------------------------------------------ main(): lines 266 - 299
HasFinite(beamlst) == \E j \in 1 .. Len(beamlst) : IsFinite(beamlst[j])

\* The test of lines 284 and 290: the requested axis is below the rounded-up
\* major axis of big_beam.
TooSmall(axis, big_beam) == axis < round_up(big_beam.major)

\* Lines 278 - 281: the position angle of the target beam.
UsesBigBeamPa == args.bpa = None /\ args.bmin # None /\ args.bmaj # None
TargetPa(big_beam) == IF UsesBigBeamPa THEN big_beam.pa ELSE 0

\* Lines 282 - 293: bmaj and bmin of the target beam, both from the major
\* axis of big_beam when omitted.
TargetAxis(axis, big_beam) ==
    IF axis = None THEN round_up(big_beam.major) ELSE axis

TargetBeam ==
    /\ pc = "beam"
    /\ LET beamlst == Ravel(beams)
       IN  IF ~HasFinite(beamlst)
           THEN /\ Raise("ValueError: attempt to get argmax of an empty sequence")
                /\ new_beam' = new_beam
           ELSE LET big_beam == largest_beam(beamlst)
                    bmaj == TargetAxis(args.bmaj, big_beam)
                    bmin == TargetAxis(args.bmin, big_beam)
                IN  IF args.bmaj # None /\ TooSmall(args.bmaj, big_beam)
                    THEN /\ Raise("Selected BMAJ is too small!")
                         /\ new_beam' = new_beam
                    ELSE IF args.bmin # None /\ TooSmall(args.bmin, big_beam)
                    THEN /\ Raise("Selected BMIN is too small!")
                         /\ new_beam' = new_beam
                    ELSE IF bmin > bmaj
                    THEN /\ Raise("ValueError: Minor axis greater than major axis.")
                         /\ new_beam' = new_beam
                    ELSE /\ new_beam' = Beam(bmaj, bmin, TargetPa(big_beam))
                         /\ pc' = "cube" /\ err' = err
    /\ UNCHANGED <<inputs, n_cores, beams, nchans, masks, totalmask, exec,
                   store, cpu>>

\* Line 279 reads big_beam.bpa; a radio_beam Beam names its angle pa, and a
\* build whose Beam has no attribute bpa ends the run here.
BpaAttributeError ==
    /\ pc = "beam"
    /\ HasFinite(Ravel(beams))
    /\ UsesBigBeamPa
    /\ Raise("AttributeError: bpa")
    /\ UNCHANGED <<inputs, plan, exec, store, cpu>>

\* ------------------------------------------------ main(): lines 303 - 351
\* cube.shape[0]
Shape0(c) == Cardinality(DOMAIN files[c].mask)

\* Buffers of the shape of the whole cube.
BufferSlots_cube(w, n) == Arr(n)

\* Lines 328 - 329 and 341 - 342: the buffers take the shape of the cube with
\* its first axis set to width; one slot stands for one channel image.
BufferSlots(w, n) == Arr(w)

\* _samefile answering False for every pair of paths.
_samefile_never(c) == FALSE

\* _samefile(src, dst), lines 48 - 54: os.path.samefile of the input cube
\* and the output path made from it in lines 306 - 310.
_samefile(c) == files[c].same

\* copyfile, line 82: open(dst, 'wb') empties the file dst names, which is
\* the input file when both paths name one file.
OpenForWriting(c, held) == IF files[c].same THEN "truncated" ELSE held

\* getfacs (line 304), then copyfile (line 312) with its test of lines
\* 64 - 65, then the chunking and the buffers of lines 319 - 351.
StartCube ==
    /\ pc = "cube"
    /\ IF getfacs_raises(beams[key], new_beam)
       THEN /\ Raise("BeamError: Beam could not be deconvolved")
            /\ UNCHANGED <<n_cores, cubedict, width, n_chunks, i, arr_in,
                           arr_out, outfile, created, srcfile, chunks, flushed>>
       ELSE IF _samefile(key)
       THEN /\ Raise("SameFileError")
            /\ UNCHANGED <<n_cores, cubedict, width, n_chunks, i, arr_in,
                           arr_out, outfile, created, srcfile, chunks, flushed>>
       ELSE LET cores == IF args.mpi THEN n_cores ELSE args.n_cores
                w == cpu_to_use(cores, Shape0(key))
            IN  /\ cubedict' = [conbeams |-> getfacs_conbms(beams[key], new_beam),
                                sfactors |-> getfacs_facs(beams[key], new_beam)]
                /\ outfile' = [outfile EXCEPT
                                 ![key] = [k \in Arr(Shape0(key)) |-> RawImage(key, k)]]
                /\ created' = [created EXCEPT ![key] = TRUE]
                /\ srcfile' = [srcfile EXCEPT ![key] = OpenForWriting(key, @)]
                /\ n_cores' = cores
                /\ width' = w
                /\ n_chunks' = Shape0(key) \div w
                /\ arr_out' = [idx \in BufferSlots(w, Shape0(key)) |-> NaNImage]
                /\ arr_in' = [idx \in BufferSlots(w, Shape0(key)) |-> NaNImage]
                /\ i' = 0 /\ chunks' = <<>> /\ flushed' = <<>>
                /\ pc' = "loop" /\ err' = err
    /\ UNCHANGED <<inputs, beams, nchans, masks, totalmask, new_beam, key,
                   tasks, header, rd, wr, cpu>>

\* ------------------------------------------------ main(): lines 353 - 375
\* A stride of width + 1.
ChunkStart_stride(ci, w) == ci * (w + 1)

\* start = i*width; stop = start+width
ChunkStart(ci, w) == ci * w
ChunkStop(ci, w) == ChunkStart(ci, w) + w
start == ChunkStart(i, width)

\* The chunk loop left one pass early.
LoopEnds_early(ci, n) == ci >= n - 1

\* for i in trange(n_chunks), line 353: the loop is over after n_chunks passes.
LoopEnds(ci, n) == ci >= n

\* arr_in[:] = cube[start:stop, :] fills the buffer it was given, slot by slot.
LoadChunk ==
    /\ pc = "loop"
    /\ IF ~LoopEnds(i, n_chunks)
       THEN /\ arr_in' = [idx \in DOMAIN arr_in |-> RawImage(key, start + idx)]
            /\ chunks' = Append(chunks, <<start, ChunkStop(i, width)>>)
            /\ pc' = "pool"
       ELSE /\ pc' = "header"
            /\ UNCHANGED <<arr_in, chunks>>
    /\ UNCHANGED <<inputs, plan, err, key, cubedict, width, n_chunks, i,
                   arr_out, tasks, flushed, rd, wr, store, cpu>>

\* [idx for idx in range(width)]
TaskArgs(w) == [t \in Arr(w) |-> t]

\* Lines 363 - 370: a pool is made and pool.map hands out worker(idx, start)
\* for every idx of the list.
Dispatch ==
    /\ pc = "pool"
    /\ tasks' = [t \in DOMAIN TaskArgs(width) |->
                    [idx |-> TaskArgs(width)[t], st |-> "queued", newim |-> NaNImage]]
    /\ rd' = [slot \in Arr(width) |-> {}]
    /\ wr' = [slot \in Arr(width) |-> {}]
    /\ pc' = "map"
    /\ UNCHANGED <<inputs, plan, err, key, cubedict, width, n_chunks, i,
                   arr_in, arr_out, chunks, flushed, store, cpu>>

\* worker without start: the plan entry of the buffer index.
WorkerPlanIndex_nostart(idx, st) == idx
\* worker storing into the first slot.
WorkerOutSlot_first(idx) == 0

\* worker(idx, start), line 191: the slot of arr_in it reads and the entry of
\* conbeams and sfactors it uses.
WorkerInSlot(idx) == idx
WorkerPlanIndex(idx, st) == st + idx
\* worker(idx, start), line 193: the slot of arr_out it writes.
WorkerOutSlot(idx) == idx

\* Line 191 on the channel whose convolution fails: smooth() raises.
SmoothRaises(idx, st) == fault # None /\ st + idx = fault

\* A task of a local pool runs line 191; the workers are forked after the
\* buffers and cubedict are set, and see them.
TaskSmooth(t) ==
    /\ pc = "map"
    /\ ~args.mpi
    /\ tasks[t].st = "queued"
    /\ ~SmoothRaises(tasks[t].idx, start)
    /\ LET idx == tasks[t].idx
           p == WorkerPlanIndex(idx, start)
       IN  /\ tasks' = [tasks EXCEPT
                          ![t].st = "smoothed",
                          ![t].newim = smooth(arr_in[WorkerInSlot(idx)],
                                              cubedict.conbeams[p],
                                              cubedict.sfactors[p])]
           /\ rd' = [rd EXCEPT ![WorkerInSlot(idx)] = @ \cup {t}]
    /\ UNCHANGED <<inputs, plan, pc, err, key, cubedict, width, n_chunks, i,
                   arr_in, arr_out, chunks, flushed, wr, store, cpu>>

\* ... and then line 193.
TaskStore(t) ==
    /\ pc = "map"
    /\ tasks[t].st = "smoothed"
    /\ arr_out' = [arr_out EXCEPT ![WorkerOutSlot(tasks[t].idx)] = tasks[t].newim]
    /\ wr' = [wr EXCEPT ![WorkerOutSlot(tasks[t].idx)] = @ \cup {t}]
    /\ tasks' = [tasks EXCEPT ![t].st = "done"]
    /\ UNCHANGED <<inputs, plan, pc, err, key, cubedict, width, n_chunks, i,
                   arr_in, chunks, flushed, rd, store, cpu>>

\* With --mpi the task runs on a rank that left main() at line 209, before
\* arr_in, arr_out and cubedict were assigned: line 191 raises NameError
\* there, and no result comes back to the master.
TaskFailsOnRank(t) ==
    /\ pc = "map"
    /\ args.mpi
    /\ tasks[t].st = "queued"
    /\ tasks' = [tasks EXCEPT ![t].st = "failed"]
    /\ UNCHANGED <<inputs, plan, pc, err, key, cubedict, width, n_chunks, i,
                   arr_in, arr_out, chunks, flushed, rd, wr, store, cpu>>

\* worker() has no try/except: the exception of smooth() leaves the task
\* without a result and without a store into arr_out.
TaskRaises(t) ==
    /\ pc = "map"
    /\ ~args.mpi
    /\ tasks[t].st = "queued"
    /\ SmoothRaises(tasks[t].idx, start)
    /\ tasks' = [tasks EXCEPT ![t].st = "raised"]
    /\ UNCHANGED <<inputs, plan, pc, err, key, cubedict, width, n_chunks, i,
                   arr_in, arr_out, chunks, flushed, rd, wr, store, cpu>>

\* Line 370: pool.map re-raises the exception of a task in main(), which
\* does not catch it either; the chunk is not written.
MapRaises ==
    /\ pc = "map"
    /\ \E t \in DOMAIN tasks : tasks[t].st = "raised"
    /\ Raise("Exception raised by a worker task")
    /\ UNCHANGED <<inputs, plan, exec, store, cpu>>

\* pool.map returning with the first result.
MapReturns_first == \E t \in DOMAIN tasks : tasks[t].st = "done"

\* list(pool.map(...)) returns when every task has returned.
MapReturns == \A t \in DOMAIN tasks : tasks[t].st = "done"

\* Lines 370 - 371: pool.map returns, pool.close().
Join ==
    /\ pc = "map"
    /\ MapReturns
    /\ pc' = "write"
    /\ UNCHANGED <<inputs, plan, err, exec, store, cpu>>

\* Lines 373 - 375: outfh[0].data[start:stop,0,:,:] = arr_out[:]; flush.
WriteChunk ==
    /\ pc = "write"
    /\ outfile' = [outfile EXCEPT ![key] =
                      [k \in DOMAIN outfile[key] |->
                          IF start <= k /\ k < ChunkStop(i, width)
                          THEN arr_out[k - start] ELSE outfile[key][k]]]
    /\ flushed' = Append(flushed, start)
    /\ i' = i + 1
    /\ pc' = "loop"
    /\ UNCHANGED <<inputs, plan, err, key, cubedict, width, n_chunks, arr_in,
                   arr_out, tasks, chunks, rd, wr, created, header, srcfile,
                   cpu>>

\* Lines 377 - 381: the target beam goes into the header; the next cube.
UpdateHeader ==
    /\ pc = "header"
    /\ header' = [header EXCEPT ![key] = @ + 1]
    /\ IF key + 1 < NCubes
       THEN pc' = "cube" /\ key' = key + 1
       ELSE pc' = "done" /\ key' = key
    /\ UNCHANGED <<inputs, plan, err, cubedict, width, n_chunks, i, arr_in,
                   arr_out, tasks, chunks, flushed, rd, wr, outfile, created,
                   srcfile, cpu>>

Next ==
    \/ ReadFiles
    \/ MaskBeams
    \/ TargetBeam
    \/ BpaAttributeError
    \/ StartCube
    \/ LoadChunk
    \/ Dispatch
    \/ \E t \in DOMAIN tasks : TaskSmooth(t)
    \/ \E t \in DOMAIN tasks : TaskStore(t)
    \/ \E t \in DOMAIN tasks : TaskFailsOnRank(t)
    \/ \E t \in DOMAIN tasks : TaskRaises(t)
    \/ MapRaises
    \/ Join
    \/ WriteChunk
    \/ UpdateHeader

\* ---------------------------------------------------------------- inputs
Masks(n) == [Arr(n) -> BOOLEAN]
NoMask(n) == [k \in Arr(n) |-> FALSE]
AxisArgs == {None, 3 * ArcsecDenom, 4 * ArcsecDenom, 6 * ArcsecDenom}
DefaultArgs == [bmaj |-> None, bmin |-> None, bpa |-> None, n_cores |-> 1, mpi |-> FALSE]

\* Cubes of MinChan channels with round and elongated beams, channels of the
\* first cube blanked, and every choice of --bmaj, --bmin and --bpa.
BeamInputs ==
    /\ \E n \in 0 .. MaxCubes :
         \E tabs \in [Arr(n) -> [Arr(MinChan) -> {RoundBeam, LongBeam}]] :
           \E m \in Masks(MinChan) :
             files = [c \in Arr(n) |->
                        [beamlog |-> tabs[c],
                         mask |-> IF c = 0 THEN m ELSE NoMask(MinChan),
                         same |-> FALSE]]
    /\ \E bmaj \in AxisArgs, bmin \in AxisArgs, bpa \in {None, 90} :
         args = [bmaj |-> bmaj, bmin |-> bmin, bpa |-> bpa,
                 n_cores |-> 1, mpi |-> FALSE]
    /\ comm_size = 1
    /\ fault = None

\* Cubes of equal or unequal channel counts with any channels blanked; the
\* output path of the last cube may name its input file.
MaskInputs ==
    /\ \E n \in 1 .. MaxCubes :
         \E len \in [Arr(n) -> {MinChan, MinChan + 1}] :
           \E ms \in [Arr(n) -> Masks(MinChan + 1)], same \in BOOLEAN :
             files = [c \in Arr(n) |->
                        [beamlog |-> [k \in Arr(len[c]) |-> GradedBeam(k)],
                         mask |-> [k \in Arr(len[c]) |-> ms[c][k]],
                         same |-> same /\ c = n - 1]]
    /\ args = DefaultArgs
    /\ comm_size = 1
    /\ fault = None

\* The channels whose convolution may be made to fail.
FaultChannels == {MinChan - 1}

\* Cubes of up to MaxChan channels, worked on by up to MaxCores local
\* workers or by the ranks of an MPI communicator; a local task may raise.
ChunkInputs ==
    /\ \E n \in 1 .. MaxCubes, len \in MinChan .. MaxChan :
         \E m \in Masks(len) :
           files = [c \in Arr(n) |->
                      [beamlog |-> [k \in Arr(len) |-> GradedBeam(k)],
                       mask |-> IF c = 0 THEN m ELSE NoMask(len),
                       same |-> FALSE]]
    /\ \/ /\ \E w \in 1 .. MaxCores : args = [DefaultArgs EXCEPT !.n_cores = w]
          /\ comm_size = 1
          /\ fault \in {None} \cup FaultChannels
       \/ /\ args = [DefaultArgs EXCEPT !.mpi = TRUE]
          /\ comm_size \in 2 .. MaxCores
          /\ fault = None

Init ==
    /\ BeamInputs \/ MaskInputs \/ ChunkInputs
    /\ Idle
    /\ cpu = NoCpu

Spec == Init /\ [][Next]_vars

\* ------------------------------------------------- cpu_to_use on its own
CallCpu ==
    /\ ~cpu.called
    /\ cpu' = [cpu EXCEPT !.ret = cpu_to_use(cpu.max_cpu, cpu.count),
                          !.called = TRUE]
    /\ UNCHANGED <<inputs, plan, pc, err, exec, store>>

InitCpu ==
    /\ files = <<>> /\ args = DefaultArgs /\ comm_size = 1 /\ fault = None
    /\ Idle
    /\ \E w \in 1 .. MaxCpu, n \in 1 .. MaxCount :
         cpu = [max_cpu |-> w, count |-> n, ret |-> 0, called |-> FALSE]

NextCpu == CallCpu

SpecCpu == InitCpu /\ [][NextCpu]_vars

\* main() keeps running while it has a step to take.
FairSpec == Spec /\ WF_vars(Next)

\* ================================================================ claims
IsPrime(n) == n > 1 /\ \A d \in 2 .. (n - 1) : n % d # 0

\* C1: for N >= 1 and W >= 1, cpu_to_use(W, N) is the largest divisor of N
\* that does not exceed W: it divides N, it is at most W, no larger divisor
\* of N is at most W, and it is 1 when N is prime and W < N.
C1_LargestDivisor ==
    cpu.called =>
        /\ cpu.ret >= 1
        /\ cpu.ret <= cpu.max_cpu
        /\ cpu.count % cpu.ret = 0
        /\ \A d \in (cpu.ret + 1) .. cpu.max_cpu : cpu.count % d # 0
        /\ (IsPrime(cpu.count) /\ cpu.max_cpu < cpu.count => cpu.ret = 1)

\* N = 10 channels and W = 4 workers give a width of 2.
C1_Witness ==
    cpu.called /\ cpu.count = 10 /\ cpu.max_cpu = 4 /\ cpu.ret = 2

\* The plan entry of channel k of cube c, and the image smoothing gives.
PlanKernel(c, k) == deconvolve(new_beam, beams[c][k])
Smoothed(c, k) ==
    smooth(RawImage(c, k), PlanKernel(c, k), gauss_factor(PlanKernel(c, k), beams[c][k]))

\* The chunk loop of cube c has run to its end.
Completed(c) == created[c] /\ (c < key \/ (c = key /\ pc \in {"header", "done"}))

\* C2: when the run of a cube with a local pool completes, every channel k
\* of the output holds input channel k smoothed with plan entry k.
C2_OutputMatchesPlan ==
    \A c \in DOMAIN files :
        (~args.mpi /\ Completed(c)) =>
            \A k \in Arr(Shape0(c)) : outfile[c][k] = Smoothed(c, k)

\* A cube of two chunks of two channels is complete, with a blanked channel
\* in the second chunk and smoothed channels in both.
C2_Witness ==
    /\ ~args.mpi /\ NCubes >= 1 /\ Completed(0)
    /\ width = 2 /\ Shape0(0) = 4
    /\ outfile[0][3] = NaNImage
    /\ outfile[0][2].kind = "sm" /\ outfile[0][0].kind = "sm"

\* Channel k is blanked at the centre pixel of at least one input cube.
Flagged(k) == \E c \in DOMAIN files : k \in DOMAIN files[c].mask /\ files[c].mask[k]
AfterMasking == totalmask # <<>>

\* C3: after the masking pass, a channel blanked in at least one cube has a
\* NaN beam in every cube, and a channel blanked in no cube has the beam of
\* the beam log in every cube.
C3_MaskIsUnion ==
    AfterMasking =>
        \A c \in DOMAIN files : \A k \in DOMAIN files[c].beamlog :
            beams[c][k] = IF Flagged(k) THEN NaNBeam ELSE files[c].beamlog[k]

\* Two cubes, a channel blanked in the first cube only: its beam is NaN in
\* the second cube as well, and the channel before it is kept.
C3_Witness ==
    /\ AfterMasking /\ NCubes = 2
    /\ files[0].mask[1] /\ ~files[1].mask[1] /\ beams[1][1] = NaNBeam
    /\ ~Flagged(0) /\ beams[0][0] = files[0].beamlog[0]

\* The major axes of the valid channels: those blanked in no cube.
ValidMajors ==
    {files[c].beamlog[k].major :
        c \in DOMAIN files, k \in {j \in Arr(MaxChan + 1) :
            /\ \A d \in DOMAIN files : j \in DOMAIN files[d].beamlog
            /\ ~Flagged(j)}}
MaxValidMajor == Max(ValidMajors)

\* No convolution work has begun: no output file, no chunk, no task.
NoWorkBegun ==
    /\ \A c \in DOMAIN files : ~created[c] /\ outfile[c] = <<>> /\ header[c] = 0
    /\ chunks = <<>> /\ flushed = <<>> /\ tasks = <<>>

RequestedTooSmall(axis) ==
    axis # None /\ ValidMajors # {} /\ axis < round_up(MaxValidMajor)

\* C4: a requested bmaj or bmin below the rounded-up largest valid native
\* major axis aborts the run before any convolution work begins.
C4_SmallRequestAborts ==
    (RequestedTooSmall(args.bmaj) \/ RequestedTooSmall(args.bmin)) => NoWorkBegun

\* In the per-cube convolution stage.
InCubeStage == pc \in {"cube", "loop", "pool", "map", "write", "header"}

\* C5: in the per-cube convolution stage both axes of the target beam are
\* at least the largest major axis of the valid channels of all cubes.
C5_TargetDominates ==
    InCubeStage =>
        /\ new_beam.major >= MaxValidMajor
        /\ new_beam.minor >= MaxValidMajor

\* The input cubes do not all have the same channel count.
UnequalInputs ==
    \E c \in DOMAIN files, d \in DOMAIN files :
        Cardinality(DOMAIN files[c].beamlog) # Cardinality(DOMAIN files[d].beamlog)

\* C6: with cubes of unequal channel counts the run never gets past the
\* masking pass other than into the fatal error, no convolution work ever
\* begins, and the run does end in that error.
C6_UnequalCountsAbort ==
    /\ [](UnequalInputs => (pc \in {"start", "mask", "error"} /\ NoWorkBegun))
    /\ (UnequalInputs =>
           <>(pc = "error" /\ err = "Unequal channel count in beamlogs!"))

\* Two cubes of 2 and 3 channels: the run has ended in the error.
C6_Witness ==
    /\ pc = "error" /\ err = "Unequal channel count in beamlogs!"
    /\ UnequalInputs /\ NCubes = 2 /\ nchans[0] = 2 /\ nchans[1] = 3

\* C7: a chunk is written only when every task dispatched for it has
\* finished, and the input buffer is loaded with a chunk only when every
\* chunk loaded before it has been written and flushed.
C7_ChunkBoundary ==
    [][/\ (flushed' # flushed /\ flushed' # <<>>) =>
              /\ tasks # <<>>
              /\ \A t \in DOMAIN tasks : tasks[t].st = "done"
       /\ (chunks' # chunks /\ chunks' # <<>>) =>
              /\ Len(flushed) = Len(chunks)
              /\ \A j \in 1 .. Len(chunks) : flushed[j] = chunks[j][1]]_vars

\* The second chunk of a cube is in the input buffer, the first one having
\* been written while tasks had finished in another order than dispatched.
C7_Witness ==
    /\ pc = "map" /\ width >= 2 /\ Len(chunks) = 2 /\ Len(flushed) = 1
    /\ tasks[1].st = "done" /\ tasks[0].st = "queued"

\* C8: the chunks of a cube of N channels and width w are the ranges
\* [j*w, (j+1)*w) for j = 0 .. N/w - 1, loaded and written once each in
\* increasing order; when the cube is complete they cover every channel once.
C8_ChunksPartition ==
    (InCubeStage /\ pc # "cube") =>
        LET N == Shape0(key)
        IN  /\ width >= 1 /\ N % width = 0
            /\ Len(chunks) <= N \div width
            /\ \A j \in 1 .. Len(chunks) :
                   chunks[j] = <<(j - 1) * width, j * width>>
            /\ \A j \in 1 .. Len(flushed) : flushed[j] = chunks[j][1]
            /\ pc = "header" =>
                   /\ Len(chunks) = N \div width
                   /\ Len(flushed) = Len(chunks)
                   /\ \A k \in Arr(N) :
                          Cardinality({j \in 1 .. Len(chunks) :
                              chunks[j][1] <= k /\ k < chunks[j][2]}) = 1

\* A cube of 4 channels and 3 workers: two chunks of width 2, complete.
C8_Witness ==
    /\ pc = "header" /\ Shape0(key) = 4 /\ args.n_cores = 3 /\ width = 2
    /\ chunks = << <<0, 2>>, <<2, 4>> >>

\* C9: a chunk has exactly one task per buffer index, and a slot of either
\* buffer is read or written only by the task of its index, whatever the
\* order the tasks run in.
C9_DisjointSlices ==
    pc \in {"map", "write"} =>
        \A slot \in Arr(width) :
            LET owners == {t \in DOMAIN tasks : tasks[t].idx = slot}
            IN  /\ Cardinality(owners) = 1
                /\ rd[slot] \subseteq owners
                /\ wr[slot] \subseteq owners
                /\ \A t \in DOMAIN tasks :
                       tasks[t].st = "done" => t \in wr[tasks[t].idx]

\* Three tasks run at once: the last has stored, the first has only read.
C9_Witness ==
    /\ pc = "map" /\ width = 3
    /\ tasks[2].st = "done" /\ tasks[0].st = "smoothed" /\ tasks[1].st = "queued"
    /\ wr[2] = {2} /\ rd[0] = {0} /\ rd[1] = {}

\* C10: a channel whose beam is NaN or cannot be deconvolved from the target
\* beam never ends the run in an error.
C10_NoErrorFromChannel ==
    err # "BeamError: Beam could not be deconvolved"

\* C11: a task that raises for one channel does not abort the run: the
\* failure stays with that channel, and main() does not end in an error
\* because of it.
C11_TaskFailureContained ==
    (\E t \in DOMAIN tasks : tasks[t].st = "raised") => pc # "error"

\* C12: whenever --bpa is given, the target beam has that position angle,
\* whatever --bmaj and --bmin are.
C12_RequestedPaKept ==
    ((InCubeStage \/ pc = "done") /\ args.bpa # None) => new_beam.pa = args.bpa

\* C13: the target beam is attached to the header of an output exactly once
\* for a cube processed to its end, and only when every chunk of the cube has
\* been written and flushed; nothing is written to the output after that.
C13_HeaderOnceAfterChunks ==
    /\ [](\A c \in DOMAIN header :
            /\ header[c] <= 1
            /\ ((c < key \/ pc = "done") => header[c] = 1)
            /\ (header[c] = 1 => created[c]))
    /\ [][/\ header' # header =>
               /\ header[key] = 0
               /\ header' = [header EXCEPT ![key] = 1]
               /\ pc = "header"
               /\ Len(flushed) * width = Shape0(key)
               /\ \A n \in 1 .. Len(flushed) : flushed[n] = (n - 1) * width
          /\ \A c \in DOMAIN header :
               header[c] = 1 => outfile'[c] = outfile[c]]_vars

C13_Witness ==
    /\ pc = "done" /\ NCubes = 2
    /\ n_chunks >= 2
    /\ header[0] = 1 /\ header[1] = 1

\* The list ms with the mask of cube c once more at its end, the list
\* without its entry d, and the list in reverse order.
WithDuplicate(ms, c) ==
    [d \in Arr(Cardinality(DOMAIN ms) + 1) |-> IF d \in DOMAIN ms THEN ms[d] ELSE ms[c]]
WithoutEntry(ms, d) ==
    [e \in Arr(Cardinality(DOMAIN ms) - 1) |-> IF e < d THEN ms[e] ELSE ms[e + 1]]
Reversed(ms) == [d \in DOMAIN ms |-> ms[Cardinality(DOMAIN ms) - 1 - d]]

\* C14: the union of the masks is idempotent: a mask listed twice gives the
\* totalmask it gives listed once, and totalmask depends on the set of masks
\* only, not on how often or in which order they are listed.
C14_UnionIdempotent ==
    AfterMasking =>
        /\ \A c \in DOMAIN masks :
             TotalMask(WithDuplicate(masks, c), nchans[0]) = totalmask
        /\ \A c \in DOMAIN masks, d \in DOMAIN masks :
             (c < d /\ masks[c] = masks[d]) =>
                 TotalMask(WithoutEntry(masks, d), nchans[0]) = totalmask
        /\ TotalMask(Reversed(masks), nchans[0]) = totalmask
        /\ \A k \in DOMAIN totalmask :
             totalmask[k] <=> \E m \in {masks[c] : c \in DOMAIN masks} : m[k]

C14_Witness ==
    /\ AfterMasking /\ NCubes = 2
    /\ masks[0] = masks[1]
    /\ \E k \in DOMAIN totalmask : totalmask[k]
    /\ \E k \in DOMAIN totalmask : ~totalmask[k]

\* Every channel is blanked in some cube.
AllMasked ==
    /\ NCubes > 0
    /\ \A c \in DOMAIN files : \A k \in DOMAIN files[c].beamlog : Flagged(k)

\* C15: when every channel is masked, the run ends in an error before a
\* target beam is chosen and before any output file or chunk is made: it
\* is never past the choice of the target beam, nothing has been begun, and
\* it has a next step to take wherever it has not yet ended in the error.
C15_AllMaskedAborts ==
    AllMasked =>
        /\ pc \in {"start", "mask", "beam", "error"}
        /\ new_beam = NaNBeam
        /\ NoWorkBegun
        /\ (pc # "error" => ENABLED Next)

C15_Witness ==
    /\ AllMasked
    /\ pc = "error"
    /\ err = "ValueError: attempt to get argmax of an empty sequence"
    /\ totalmask # <<>>

\* C16: when the output path of a cube names its input file, copyfile ends
\* the run with SameFileError before the destination is opened for writing:
\* the input file keeps its data, no output is made and no chunk of that cube
\* is worked on.
C16_SameFileRefused ==
    /\ [](\A c \in DOMAIN files : files[c].same =>
            /\ srcfile[c] = "data"
            /\ ~created[c] /\ outfile[c] = <<>> /\ header[c] = 0
            /\ (key = c => pc \in {"start", "mask", "beam", "cube", "error"}))
    /\ [][(pc = "cube" /\ files[key].same /\ pc' # pc) =>
             /\ pc' = "error"
             /\ err' \in {"SameFileError", "BeamError: Beam could not be deconvolved"}
             /\ (~getfacs_raises(beams[key], new_beam) => err' = "SameFileError")
             /\ srcfile' = srcfile /\ outfile' = outfile /\ created' = created
             /\ chunks' = chunks /\ tasks' = tasks]_vars

C16_Witness ==
    /\ pc = "error" /\ err = "SameFileError"
    /\ key = 1 /\ files[1].same
    /\ created[0] /\ header[0] = 1
    /\ srcfile[1] = "data" /\ ~created[1]

\* C17: with --mpi as without, every worker task sees the buffers the master
\* filled, and when a chunk is written every slot of the output buffer holds
\* the result of the task for that slot of this chunk.
C17_BuffersSharedWithWorkers ==
    /\ \A t \in DOMAIN tasks : tasks[t].st # "failed"
    /\ (pc = "write" =>
          \A idx \in DOMAIN arr_out : arr_out[idx] = Smoothed(key, start + idx))

\* C18: when no task raises and every task that is started runs to its end,
\* every chunk handed to a pool is eventually written, and the header of
\* every cube whose chunk loop began is eventually updated, with --mpi as
\* without.
C18_EveryChunkWritten ==
    /\ ((pc = "map" /\ fault = None) ~> (pc = "write"))
    /\ ((pc = "loop" /\ fault = None) ~> (pc \in {"cube", "done"}))

\* C19: the two buffers have one slot for each of the width channels of a
\* chunk, are made at the start of a cube and keep their shape through all
\* its chunks, and hold images of one chunk of the cube only.
C19_BuffersOneChunk ==
    /\ [](pc \in {"loop", "pool", "map", "write", "header"} =>
            /\ DOMAIN arr_in = Arr(width)
            /\ DOMAIN arr_out = Arr(width)
            /\ \E ci \in 0 .. n_chunks :
                 \A idx \in DOMAIN arr_in :
                   arr_in[idx] \in {NaNImage, RawImage(key, ChunkStart(ci, width) + idx)})
    /\ [][pc # "cube" =>
             /\ DOMAIN arr_in' = DOMAIN arr_in
             /\ DOMAIN arr_out' = DOMAIN arr_out]_vars

C19_Witness ==
    /\ pc = "write" /\ i = 1
    /\ width = 2 /\ n_chunks = 2
    /\ arr_in[0] = RawImage(key, 2) /\ arr_out[1] = Smoothed(key, 3)

====
